---- MODULE Spec2Model ----
(***************************************************************************)
(* lgtm-cli: the bounded worker pool (Unfollower), the followed-projects   *)
(* cache (FollowedProjectCache) and the commands that drive them           *)
(* (unfollow-all, unfollow, follow, add-to-list).                          *)
(***************************************************************************)
EXTENDS Integers, Sequences, FiniteSets, TLC

(***************************************************************************)
(* Bounds of the model.                                                    *)
(***************************************************************************)
\* SpecPool: how many work items the client of the pool dispatches at most
MaxItems == 4
\* SpecPool: the largest maxWorkers an Unfollower is created with
MaxW == 2

(***************************************************************************)
(* Program constants.                                                      *)
(***************************************************************************)
\* NewUnfollower(client, 6) in unfollow-all and unfollow
CmdMaxWorkers == 6

(***************************************************************************)
(* Strings are sequences of one-character strings.                         *)
(***************************************************************************)
\* const githubHost = "https://github.com"; defaultHost = githubHost
githubHost == <<"h","t","t","p","s",":","/","/","g","i","t","h","u","b",".","c","o","m">>
defaultHost == githubHost

DotGit == <<".","g","i","t">>
SchemeSep == <<":","/","/">>
Https == <<"h","t","t","p","s">>
Slash == <<"/">>

\* strings.HasSuffix / strings.HasPrefix
HasSuffix(s, suf) ==
    /\ Len(s) >= Len(suf)
    /\ SubSeq(s, Len(s) - Len(suf) + 1, Len(s)) = suf

\* strings.TrimSuffix
TrimSuffix(s, suf) == IF HasSuffix(s, suf) THEN SubSeq(s, 1, Len(s) - Len(suf)) ELSE s

\* strings.Count(s, c) for a one-character c
Count(s, c) == Cardinality({i \in 1..Len(s) : s[i] = c})

\* strings.Trim(s, c) for a one-character cutset
Trim(s, c) ==
    LET keep == {i \in 1..Len(s) : s[i] # c}
    IN IF keep = {} THEN <<>>
       ELSE LET lo == CHOOSE i \in keep : \A j \in keep : i <= j
                hi == CHOOSE i \in keep : \A j \in keep : i >= j
            IN SubSeq(s, lo, hi)

\* strings.TrimSpace
TrimSpace(s) == Trim(s, " ")

\* index of the first occurrence of sub in s, 0 when there is none
Index(s, sub) ==
    LET at == {i \in 1..(Len(s) - Len(sub) + 1) : SubSeq(s, i, i + Len(sub) - 1) = sub}
    IN IF at = {} THEN 0 ELSE CHOOSE i \in at : \A j \in at : i <= j

\* strings.Split(s, "/")
RECURSIVE Split(_)
Split(s) ==
    LET i == Index(s, Slash)
    IN IF i = 0 THEN <<s>>
       ELSE <<SubSeq(s, 1, i - 1)>> \o Split(SubSeq(s, i + 1, Len(s)))

\* ToLower, on the letters the model uses in upper case
LowerChar(c) == CASE c = "A" -> "a" [] c = "B" -> "b" [] c = "G" -> "g" [] OTHER -> c
ToLower(s) == [i \in 1..Len(s) |-> LowerChar(s[i])]

\* TrimSlashes: strings.Trim(s, "/")
TrimSlashes(s) == Trim(s, "/")

\* CountSlashes: strings.Count(s, "/")
CountSlashes(s) == Count(s, "/")

\* trimDotGit: strings.TrimSuffix(s, ".git")
trimDotGit(s) == TrimSuffix(s, DotGit)

\* isGlob: strings.Contains(s, "*")
isGlob(s) == Count(s, "*") > 0

\* utilz.SanitizeFileNamePart: replaces the characters a file name cannot hold
SanitizeChar(c) == CASE c = "/" -> "-" [] c = ":" -> "-" [] c = " " -> "_" [] OTHER -> c
SanitizeFileNamePart(s) == [i \in 1..Len(s) |-> SanitizeChar(s[i])]

\* a glob in which `*` matches any run of characters (utilz.HasMatch compiles
\* each pattern with gobwas/glob, without separators)
RECURSIVE GlobMatch(_, _)
GlobMatch(pat, s) ==
    IF pat = <<>> THEN s = <<>>
    ELSE IF Head(pat) = "*"
         THEN \E k \in 0..Len(s) : GlobMatch(Tail(pat), SubSeq(s, k + 1, Len(s)))
         ELSE /\ s # <<>>
              /\ Head(s) = Head(pat)
              /\ GlobMatch(Tail(pat), Tail(s))

\* utilz.HasMatch(item, patterns): does any pattern match the item
HasMatch(item, patterns) ==
    \E i \in 1..Len(patterns) : GlobMatch(patterns[i], ToLower(item))

(***************************************************************************)
(* ParseGitURL and GitURL.                                                 *)
(***************************************************************************)
\* urlx.ParseWithDefaultScheme(rawURL, "https"): scheme, host, port, path.
\* A URL without "://" gets the default scheme; the host (lower-cased) runs up
\* to the first "/", an optional ":port" is split off it, the rest is the path.
SplitHostPort(scheme, hostport, path, col) ==
    [ok |-> (IF col = 0 THEN hostport ELSE SubSeq(hostport, 1, col - 1)) # <<>>,
     Scheme |-> ToLower(scheme),
     Hostname |-> ToLower(IF col = 0 THEN hostport ELSE SubSeq(hostport, 1, col - 1)),
     Port |-> IF col = 0 THEN <<>> ELSE SubSeq(hostport, col + 1, Len(hostport)),
     Path |-> path]
SplitAuthority(scheme, hostport, path) ==
    SplitHostPort(scheme, hostport, path, Index(hostport, <<":">>))
SplitPath(scheme, rest, sl) ==
    SplitAuthority(scheme,
                   IF sl = 0 THEN rest ELSE SubSeq(rest, 1, sl - 1),
                   IF sl = 0 THEN <<>> ELSE SubSeq(rest, sl, Len(rest)))
SplitScheme(raw, sep) ==
    IF sep = 0
    THEN SplitPath(Https, raw, Index(raw, Slash))
    ELSE SplitPath(SubSeq(raw, 1, sep - 1), SubSeq(raw, sep + 3, Len(raw)),
                   Index(SubSeq(raw, sep + 3, Len(raw)), Slash))
ParseURL(raw) == SplitScheme(raw, Index(raw, SchemeSep))

GitURLError == [ok |-> FALSE, Scheme |-> <<>>, Hostname |-> <<>>, Port |-> <<>>,
                User |-> <<>>, Repo |-> <<>>]

\* ParseGitURL, from the split path on: final.User, final.Repo and the checks
GitURLFromSlice(parsedURL, path, slashCount, slice, mustHaveRepoName) ==
    IF ~mustHaveRepoName /\ slashCount > 1 THEN GitURLError
    ELSE IF mustHaveRepoName /\ slashCount # 1 THEN GitURLError
    ELSE IF slashCount = 0 /\ Len(SanitizeFileNamePart(path)) = 0 THEN GitURLError
    ELSE IF slashCount > 0 /\ Len(SanitizeFileNamePart(TrimSpace(slice[1]))) = 0
         THEN GitURLError
    ELSE IF mustHaveRepoName /\ Len(SanitizeFileNamePart(TrimSpace(slice[2]))) = 0
         THEN GitURLError
    ELSE [ok |-> TRUE, Scheme |-> parsedURL.Scheme,
          Hostname |-> SanitizeFileNamePart(parsedURL.Hostname),
          Port |-> parsedURL.Port,
          User |-> IF slashCount > 0 THEN SanitizeFileNamePart(TrimSpace(slice[1]))
                   ELSE SanitizeFileNamePart(path),
          Repo |-> IF slashCount > 0 THEN SanitizeFileNamePart(TrimSpace(slice[2]))
                   ELSE <<>>]

\* ParseGitURL, from the path of the parsed URL on
GitURLFromPath(parsedURL, path, mustHaveRepoName) ==
    GitURLFromSlice(parsedURL, path, Count(path, "/"), Split(path), mustHaveRepoName)

\* ParseGitURL, from the result of urlx.ParseWithDefaultScheme on
GitURLFromParsed(parsedURL, mustHaveRepoName) ==
    IF ~parsedURL.ok THEN GitURLError
    ELSE GitURLFromPath(parsedURL, TrimSlashes(parsedURL.Path), mustHaveRepoName)

\* ParseGitURL: an identifier with at most one slash is put under defaultHost
WithDefaultHost(rawURL) ==
    IF CountSlashes(rawURL) = 1 \/ CountSlashes(rawURL) = 0
    THEN TrimSlashes(defaultHost) \o Slash \o TrimSlashes(rawURL)
    ELSE rawURL

ParseGitURL(rawURL, mustHaveRepoName) ==
    GitURLFromParsed(ParseURL(WithDefaultHost(TrimSuffix(rawURL, DotGit))), mustHaveRepoName)

\* GitURL.URL
URL(grl) ==
    grl.Scheme \o SchemeSep \o grl.Hostname
        \o (IF grl.Port # <<>> THEN <<":">> \o grl.Port ELSE <<>>)
        \o Slash \o grl.User
        \o (IF grl.Repo # <<>> THEN Slash \o grl.Repo ELSE <<>>)

\* IsUserOnly: the raw identifier names a whole account
UserOnlyOf(grl) == [ok |-> grl.ok, isWholeUser |-> grl.ok /\ grl.Repo = <<>>]
IsUserOnly(rawURL) == UserOnlyOf(ParseGitURL(rawURL, FALSE))

\* getGlobsThatMatchEverything
MatchesEverything(pattern) ==
    \/ HasSuffix(pattern, <<"/","*","/","*">>)
    \/ HasSuffix(pattern, <<"g","i","t","h","u","b",".","c","o","m","/","*">>)
getGlobsThatMatchEverything(patterns) == SelectSeq(patterns, MatchesEverything)

VARIABLES
    \* ---- the invocation: command, arguments and global flags ----
    cmd,            \* "unfollow-all", "unfollow", "follow", "add-to-list"; "pool" in SpecPool
    args,           \* c.Args(): raw repository identifiers or patterns
    noCache,        \* --nocache
    ignoreFollowedErrors,   \* --ignore-followed-errors
    noProjects,     \* unfollow-all --no-projects
    noProto,        \* unfollow-all --no-proto
    \* ---- the Unfollower (part_004) ----
    maxWorkers,     \* weight of un.sem
    semCur,         \* permits of un.sem currently held
    wgCount,        \* counter of un.wg
    workers,        \* one record per goroutine started by Unfollow, in dispatch order
    etaTotal,       \* etac total (eta.New(total))
    etaDone,        \* etac completed count
    \* ---- the main goroutine ----
    pc,             \* position of the main goroutine
    queue,          \* work items the main goroutine still has to dispatch
    cache,          \* the FollowedProjectCache returned by GetFollowedCache
    cacheErr,       \* the error returned by GetFollowedCache
    patterns,       \* unfollow: repoURLPatterns
    repoURLs,       \* follow, add-to-list: repoURLs / toBeFollowed
    idx,            \* index of the loop the main goroutine is in
    projectKeys,    \* unfollow without cache: the projectKeys map; add-to-list: projectKeys
    followedNew,    \* follow: followedNew
    \* ---- the user and the remote service, as observed ----
    asked,          \* number of confirmations requested from the user
    nList,          \* number of ListFollowedProjects remote calls
    nLookup,        \* number of GetProjectBySlug remote calls
    followLog,      \* follow remote calls issued, in order, with their outcome
    nSleep,         \* number of time.Sleep(waitDuration) cooldowns
    addLog,         \* AddProjectToSelection remote calls issued, in order
    selection,      \* add-to-list: wanted list name -> does it exist, the keys it holds
    \* ---- a FollowedProjectCache shared by goroutines (SpecCache) ----
    mu,             \* fpc.mu: number of read locks held, is the write lock held
    refresher,      \* the goroutine that calls Refresh
    reader,         \* the goroutine that calls IsFollowed, GetProject or GetProto
    unfollowCalls,  \* key -> number of unfollow remote calls issued for it
    succeeded,      \* keys reported by Successf("Unfollowed ...")
    failed          \* keys reported by Errorf("error while unfollowing ...")

inputVars == <<cmd, args, noCache, noProjects, noProto>>
lockVars == <<mu, refresher, reader>>
poolVars == <<maxWorkers, semCur, wgCount, workers, etaTotal, etaDone>>
mainVars == <<pc, queue>>
cmdVars  == <<ignoreFollowedErrors, cache, cacheErr, patterns, repoURLs, idx, projectKeys,
              followedNew, asked, nList, nLookup, followLog, nSleep, addLog, selection>>
obsVars  == <<unfollowCalls, succeeded, failed>>
vars == <<inputVars, lockVars, poolVars, mainVars, cmdVars, obsVars>>

\* the process is gone once main returned, panicked or called os.Exit
Terminated == {"exited", "panicked", "fatal", "aborted"}
ProcessAlive == pc \notin Terminated

(***************************************************************************)
(* Work items and worker goroutines.                                       *)
(***************************************************************************)
\* a work item as passed to Unfollower.Unfollow(isProto, key, name, etac)
WorkItem(isProto, key) == [isProto |-> isProto, key |-> key]

\* The deferred calls of Unfollower.unfollower, in the order of the defer
\* statements; Go runs them last-in first-out when the function returns.
Deferred_WgFirst == <<"etac.Done", "sem.Release", "wg.Done">>
Deferred_NoRelease == <<"etac.Done", "wg.Done">>
Deferred_NoEtaDone == <<"wg.Done", "sem.Release">>
Deferred == <<"etac.Done", "wg.Done", "sem.Release">>

\* the goroutine started by `go un.unfollower(isProto, key, name, etac)`;
\* it starts with the permit acquired for it by Unfollow (permit) and counts
\* its calls of apiRateLimiter.Take() (takes)
NewWorker(item) == [isProto |-> item.isProto, key |-> item.key,
                    pc |-> "spawned", res |-> "none", defers |-> Len(Deferred),
                    takes |-> 0, permit |-> TRUE]

\* remote unfollow calls in flight
InFlight == {i \in DOMAIN workers : workers[i].pc = "inflight"}

\* sem.Acquire(ctx, 1) returns only when a permit is free
AcquireEnabled_NoBlock == TRUE
AcquireEnabled == semCur < maxWorkers

\* wg.Wait() returns only when the counter is zero
WaitEnabled_NoWait == TRUE
WaitEnabled == wgCount = 0

\* after the remote call the worker logs the outcome and returns: an error
\* is not retried
AfterReturn_Retry(r) == IF r = "err" THEN "taken" ELSE "returned"
AfterReturn(r) == "returned"

\* UnfollowProject / UnfollowProtoProject post on the request that
\* newRequest returned, that is after its apiRateLimiter.Take()
RequestReady_NoTake(w) == w.pc \in {"spawned", "taken"}
RequestReady(w) == w.pc = "taken"

\* the exit code of the process: 0 when the Action returned nil, 2 after a
\* panic, 1 after Fatalf or a failed Before; -1 while it runs
ExitCode ==
    CASE pc = "exited" -> 0
      [] pc = "panicked" -> 2
      [] pc = "fatal" -> 1
      [] OTHER -> -1

(***************************************************************************)
(* Unfollower.Unfollow: acquire a permit, wg.Add(1), start the goroutine.  *)
(***************************************************************************)
Unfollow ==
    /\ pc = "dispatch"
    /\ queue # <<>>
    /\ AcquireEnabled
    /\ semCur' = semCur + 1
    /\ wgCount' = wgCount + 1
    /\ workers' = Append(workers, NewWorker(Head(queue)))
    /\ queue' = Tail(queue)
    /\ UNCHANGED <<maxWorkers, etaTotal, etaDone, pc, obsVars, inputVars, lockVars, cmdVars>>

(***************************************************************************)
(* Unfollower.unfollower, step by step.                                    *)
(***************************************************************************)
\* Client.newRequest: apiRateLimiter.Take() (delays, cannot fail)
Take(i) ==
    /\ ProcessAlive
    /\ workers[i].pc = "spawned"
    /\ workers' = [workers EXCEPT ![i].pc = "taken", ![i].takes = @ + 1]
    /\ UNCHANGED <<maxWorkers, semCur, wgCount, etaTotal, etaDone, mainVars, obsVars, inputVars, lockVars, cmdVars>>

\* req.Post(".../unfollowProject" or ".../unfollowProtoproject")
Issue(i) ==
    /\ ProcessAlive
    /\ RequestReady(workers[i])
    /\ workers' = [workers EXCEPT ![i].pc = "inflight"]
    /\ unfollowCalls' = [unfollowCalls EXCEPT ![workers[i].key] = @ + 1]
    /\ UNCHANGED <<maxWorkers, semCur, wgCount, etaTotal, etaDone, mainVars, succeeded, failed, inputVars, lockVars, cmdVars>>

\* the remote call returns; the worker logs Errorf or Successf
Return(i) ==
    /\ ProcessAlive
    /\ workers[i].pc = "inflight"
    /\ \E r \in {"ok", "err"} :
        /\ workers' = [workers EXCEPT ![i].pc = AfterReturn(r), ![i].res = r]
        /\ succeeded' = IF r = "ok" THEN succeeded \cup {workers[i].key} ELSE succeeded
        /\ failed' = IF r = "err" THEN failed \cup {workers[i].key} ELSE failed
    /\ UNCHANGED <<maxWorkers, semCur, wgCount, etaTotal, etaDone, mainVars, unfollowCalls, inputVars, lockVars, cmdVars>>

\* the function returns: the next deferred call runs
RunDeferred(i) ==
    /\ ProcessAlive
    /\ workers[i].pc = "returned"
    /\ LET d == Deferred[workers[i].defers]
           left == workers[i].defers - 1
       IN /\ workers' = [workers EXCEPT ![i].defers = left,
                                        ![i].permit = IF d = "sem.Release" THEN FALSE ELSE @,
                                        ![i].pc = IF left = 0 THEN "finished" ELSE "returned"]
          /\ semCur' = IF d = "sem.Release" THEN semCur - 1 ELSE semCur
          /\ wgCount' = IF d = "wg.Done" THEN wgCount - 1 ELSE wgCount
          /\ etaDone' = IF d = "etac.Done" THEN etaDone + 1 ELSE etaDone
    /\ UNCHANGED <<maxWorkers, etaTotal, mainVars, obsVars, inputVars, lockVars, cmdVars>>

(***************************************************************************)
(* Unfollower.Wait: un.wg.Wait(), then "Completed", return nil.            *)
(***************************************************************************)
Wait ==
    /\ pc = "dispatch"
    /\ queue = <<>>
    /\ WaitEnabled
    /\ pc' = "waited"
    /\ UNCHANGED <<poolVars, queue, obsVars, inputVars, lockVars, cmdVars>>

(***************************************************************************)
(* SpecPool: an Unfollower of any weight driven by a client that           *)
(* dispatches a batch of work items and then waits.                        *)
(***************************************************************************)
\* the batch: n items with distinct keys, odd ones projects, even ones protos
Batch(n) == [i \in 1..n |-> WorkItem(i % 2 = 0, i)]

\* the FollowedProjectCache pointer is nil
NilCache == [has |-> FALSE, projects |-> <<>>, proto |-> <<>>]

\* the goroutines of SpecCache before they call anything
IdleRefresher == [pc |-> "idle", calls |-> 0, failed |-> FALSE, ret |-> "none",
                  fetched |-> <<>>, before |-> <<>>]
IdleReader == [pc |-> "idle", op |-> "none", sawProjects |-> <<>>, sawProto |-> <<>>]

\* the variables of the commands before a command has touched them
CmdVarsInit ==
    /\ cacheErr = "nil"
    /\ patterns = <<>>
    /\ repoURLs = <<>>
    /\ idx = 0
    /\ projectKeys = <<>>
    /\ followedNew = 0
    /\ asked = 0
    /\ nList = 0
    /\ nLookup = 0
    /\ followLog = <<>>
    /\ nSleep = 0
    /\ addLog = <<>>
    /\ selection = <<>>
    /\ mu = [readers |-> 0, writer |-> FALSE]
    /\ refresher = IdleRefresher
    /\ reader = IdleReader

InitPool ==
    /\ cmd = "pool"
    /\ args = <<>>
    /\ noCache = FALSE
    /\ ignoreFollowedErrors = FALSE
    /\ noProjects = FALSE
    /\ noProto = FALSE
    /\ CmdVarsInit
    /\ cache = NilCache
    /\ maxWorkers \in 1..MaxW
    /\ semCur = 0
    /\ wgCount = 0
    /\ workers = <<>>
    /\ \E n \in 0..MaxItems :
        /\ queue = Batch(n)
        /\ etaTotal = n
    /\ etaDone = 0
    /\ pc = "dispatch"
    /\ unfollowCalls = [k \in 1..(MaxItems + 1) |-> 0]
    /\ succeeded = {}
    /\ failed = {}

NextPool == Unfollow \/ (\E i \in DOMAIN workers : Take(i))
                     \/ (\E i \in DOMAIN workers : Issue(i))
                     \/ (\E i \in DOMAIN workers : Return(i))
                     \/ (\E i \in DOMAIN workers : RunDeferred(i))
                     \/ Wait

SpecPool == InitPool /\ [][NextPool]_vars

\* any step of a goroutine started by Unfollow
WorkerStep ==
    \E i \in DOMAIN workers : Take(i) \/ Issue(i) \/ Return(i) \/ RunDeferred(i)

\* SpecPool with the scheduling the runtime and the remote service give: while
\* some goroutine of the pool can take a step, one does (the rate limiter
\* grants every Take, every remote call returns, deferred calls run), the
\* dispatcher is admitted when a permit is free and Wait returns when it can
FairPool ==
    /\ WF_vars(Unfollow)
    /\ WF_vars(Wait)
    /\ WF_vars(WorkerStep)

SpecPoolFair == SpecPool /\ FairPool

(***************************************************************************)
(* The remote service and the inputs of the commands.                      *)
(***************************************************************************)
\* raw identifiers given on the command line
rawAB == <<"a","/","b">>
rawAE == <<"a","/","e">>
rawXY == <<"x","/","y">>
rawA == <<"a">>
rawCStar == <<"c","/","*">>
rawStarStar == <<"*","/","*">>
rawTooDeep == <<"g","/","a","/","b","/","c">>
rawGithubStar == <<"g","i","t","h","u","b",".","c","o","m","/","*">>
rawGitlabStar == <<"h","t","t","p","s",":","/","/","g","i","t","l","a","b",".","c","o","m","/","*">>

\* what lgtm.com has: two followed built projects, one followed proto-project
\* and a built project nobody follows
RemoteProjects == <<[Key |-> 1, URL |-> githubHost \o Slash \o rawAB],
                    [Key |-> 2, URL |-> githubHost \o <<"/","c","/","d">>]>>
RemoteProto == <<[Key |-> 3, CloneURL |-> githubHost \o Slash \o rawAE \o DotGit]>>
BuiltProjects == RemoteProjects \o <<[Key |-> 4, URL |-> githubHost \o Slash \o rawXY]>>

\* Client.ListFollowedProjects: an error, or the followed projects and protos
ListOutcomes ==
    {[err |-> TRUE, projects |-> <<>>, proto |-> <<>>],
     [err |-> FALSE, projects |-> <<>>, proto |-> <<>>],
     [err |-> FALSE, projects |-> RemoteProjects, proto |-> RemoteProto]}

\* utilz.Deduplicate: drops repeated elements, keeps the first occurrences
Deduplicate(seq) ==
    LET firsts == {i \in 1..Len(seq) : \A j \in 1..(i - 1) : seq[j] # seq[i]}
        F[i \in 0..Len(seq)] ==
            IF i = 0 THEN <<>>
            ELSE IF i \in firsts THEN Append(F[i - 1], seq[i]) ELSE F[i - 1]
    IN F[Len(seq)]

\* the orders in which a Go map of these entries may be ranged over
Orders(S) == {q \in [1..Cardinality(S) -> S] : \A i, j \in DOMAIN q : i # j => q[i] # q[j]}

(***************************************************************************)
(* Client.GetFollowedCache(dont) with FollowedProjectCache.Refresh on a    *)
(* new cache; out is what ListFollowedProjects answers if it is called.    *)
(***************************************************************************)
GetFollowedCache_AlwaysFetch(dont, out) ==
    IF out.err
    THEN [cache |-> NilCache, err |-> "list", calls |-> 1]
    ELSE [cache |-> [has |-> TRUE, projects |-> out.projects, proto |-> out.proto],
          err |-> "nil", calls |-> 1]
GetFollowedCache(dont, out) ==
    IF dont
    THEN [cache |-> NilCache, err |-> "not fetched", calls |-> 0]
    ELSE IF out.err
         THEN [cache |-> NilCache, err |-> "list", calls |-> 1]
         ELSE [cache |-> [has |-> TRUE, projects |-> out.projects, proto |-> out.proto],
               err |-> "nil", calls |-> 1]

\* the argument each command passes to GetFollowedCache
CacheArg_Never(c) == FALSE
CacheArg(c) == IF c = "unfollow-all" THEN FALSE ELSE noCache

\* hasCache := err == nil && cache != nil
HasCache(r) == r.err = "nil" /\ r.cache.has

\* without a cache the command goes on only if --ignore-followed-errors
MayContinueWithoutCache_Always == TRUE
MayContinueWithoutCache == ignoreFollowedErrors

(***************************************************************************)
(* app.Before: --nocache implies --ignore-followed-errors; load the config *)
(* and check the session.                                                  *)
(***************************************************************************)
Before ==
    /\ pc = "start"
    /\ ignoreFollowedErrors' = (IF noCache THEN TRUE ELSE ignoreFollowedErrors)
    /\ \E ok \in BOOLEAN : pc' = IF ok THEN "action" ELSE "fatal"
    /\ UNCHANGED <<inputVars, lockVars, poolVars, queue, obsVars, cache, cacheErr, patterns, repoURLs,
                   idx, projectKeys, followedNew, asked, nList, nLookup, followLog, nSleep,
                   addLog, selection>>

(***************************************************************************)
(* unfollow-all                                                            *)
(***************************************************************************)
ProjectItems(projects) == [i \in 1..Len(projects) |-> WorkItem(FALSE, projects[i].Key)]
ProtoItems(proto) == [i \in 1..Len(proto) |-> WorkItem(TRUE, proto[i].Key)]

UnfollowAll ==
    /\ pc = "action"
    /\ cmd = "unfollow-all"
    /\ \E out \in ListOutcomes :
        LET r == GetFollowedCache(CacheArg(cmd), out)
            items == (IF noProjects THEN <<>> ELSE ProjectItems(r.cache.projects))
                     \o (IF noProto THEN <<>> ELSE ProtoItems(r.cache.proto))
            total == Len(items)
        IN /\ nList' = nList + r.calls
           /\ cache' = r.cache
           /\ cacheErr' = r.err
           /\ IF r.err # "nil"
              THEN /\ pc' = "panicked"
                   /\ UNCHANGED <<queue, etaTotal, maxWorkers>>
              ELSE IF total = 0
              THEN /\ pc' = "exited"
                   /\ UNCHANGED <<queue, etaTotal, maxWorkers>>
              ELSE /\ pc' = "dispatch"
                   /\ queue' = items
                   /\ etaTotal' = total
                   /\ maxWorkers' = CmdMaxWorkers
    /\ UNCHANGED <<inputVars, lockVars, semCur, wgCount, workers, etaDone, obsVars, ignoreFollowedErrors,
                   patterns, repoURLs, idx, projectKeys, followedNew, asked, nLookup,
                   followLog, nSleep, addLog, selection>>

\* the Action returns unfollower.Wait(), which is nil: the process exits with 0
Exit ==
    /\ pc = "waited"
    /\ pc' = "exited"
    /\ UNCHANGED <<inputVars, lockVars, poolVars, queue, cmdVars, obsVars>>

(***************************************************************************)
(* unfollow                                                                *)
(***************************************************************************)
\* the pattern a raw argument is compiled to, given its parsed form: a glob
\* keeps its URL, a whole account becomes <URL>/*, a repository keeps its URL
PatternOf_NoGlob(raw, parsed) == URL(parsed)
PatternOf(raw, parsed) ==
    IF isGlob(raw) THEN URL(parsed)
    ELSE IF parsed.Repo = <<>> THEN URL(parsed) \o <<"/","*">>
    ELSE URL(parsed)
CompilePattern(raw) == PatternOf(raw, ParseGitURL(raw, FALSE))

\* the user must confirm when a pattern matches everything
NeedsConfirmation_Never(pats) == FALSE
NeedsConfirmation(pats) == Len(getGlobsThatMatchEverything(pats)) > 0

UnfollowCompile ==
    /\ pc = "action"
    /\ cmd = "unfollow"
    /\ LET raws == Deduplicate(args)
           pats == [i \in 1..Len(raws) |-> CompilePattern(raws[i])]
       IN IF \E i \in 1..Len(raws) : ~ParseGitURL(raws[i], FALSE).ok
          THEN /\ pc' = "panicked"
               /\ UNCHANGED patterns
          ELSE /\ patterns' = pats
               /\ pc' = IF NeedsConfirmation(pats) THEN "confirm" ELSE "getcache"
    /\ UNCHANGED <<inputVars, lockVars, poolVars, queue, obsVars, ignoreFollowedErrors, cache, cacheErr,
                   repoURLs, idx, projectKeys, followedNew, asked, nList, nLookup, followLog,
                   nSleep, addLog, selection>>

\* CLIMustConfirmYes: ask; anything but a yes ends the process
UnfollowConfirm ==
    /\ pc = "confirm"
    /\ asked' = asked + 1
    /\ \E yes \in BOOLEAN : pc' = IF yes THEN "getcache" ELSE "aborted"
    /\ UNCHANGED <<inputVars, lockVars, poolVars, queue, obsVars, ignoreFollowedErrors, cache, cacheErr,
                   patterns, repoURLs, idx, projectKeys, followedNew, nList, nLookup,
                   followLog, nSleep, addLog, selection>>

\* unfollow with a cache: the followed projects, then the followed
\* proto-projects, that match a pattern, in the order of the cache
MatchedItems(fpc, pats) ==
    ProjectItems(SelectSeq(fpc.projects, LAMBDA pr : HasMatch(pr.URL, pats)))
        \o ProtoItems(SelectSeq(fpc.proto,
                                LAMBDA pr : HasMatch(trimDotGit(pr.CloneURL), pats)))

\* NewUnfollower(client, 6); GetFollowedCache(noCache); with a cache: select
\* the followed entries that match a pattern
UnfollowGetCache ==
    /\ pc = "getcache"
    /\ cmd = "unfollow"
    /\ maxWorkers' = CmdMaxWorkers
    /\ \E out \in ListOutcomes :
        LET r == GetFollowedCache(CacheArg(cmd), out)
            items == MatchedItems(r.cache, patterns)
        IN /\ nList' = nList + r.calls
           /\ cache' = r.cache
           /\ cacheErr' = r.err
           /\ IF ~HasCache(r)
              THEN /\ pc' = IF MayContinueWithoutCache THEN "degraded" ELSE "panicked"
                   /\ idx' = 1
                   /\ UNCHANGED <<queue, etaTotal>>
              ELSE IF Len(items) = 0
              THEN /\ pc' = "exited"
                   /\ UNCHANGED <<queue, etaTotal, idx>>
              ELSE /\ pc' = "dispatch"
                   /\ queue' = items
                   /\ etaTotal' = Len(items)
                   /\ UNCHANGED idx
    /\ UNCHANGED <<inputVars, lockVars, semCur, wgCount, workers, etaDone, obsVars, ignoreFollowedErrors,
                   patterns, repoURLs, projectKeys, followedNew, asked, nLookup, followLog,
                   nSleep, addLog, selection>>

\* GitURL.Slug knows github.com, gitlab.com and bitbucket.org only
HasSlug(grl) ==
    grl.Hostname \in {<<"g","i","t","h","u","b",".","c","o","m">>,
                      <<"g","i","t","l","a","b",".","c","o","m">>,
                      <<"b","i","t","b","u","c","k","e","t",".","o","r","g">>}

\* Client.GetProjectBySlug: the built projects the slug of grl denotes
BuiltBySlug(grl) ==
    {i \in 1..Len(BuiltProjects) : ToLower(BuiltProjects[i].URL) = ToLower(URL(grl))}

\* unfollow without a cache: a glob (a bare owner was compiled into one) is no
\* complete URL and is skipped
SkippedWithoutCache_Never(repoURL) == FALSE
SkippedWithoutCache(repoURL) == isGlob(repoURL)

\* unfollow without a cache: one pattern of the loop over repoURLPatterns
UnfollowDegradedStep ==
    /\ pc = "degraded"
    /\ cmd = "unfollow"
    /\ idx <= Len(patterns)
    /\ LET repoURL == patterns[idx]
           parsed == ParseGitURL(repoURL, TRUE)
       IN IF SkippedWithoutCache(repoURL)
          THEN /\ idx' = idx + 1
               /\ UNCHANGED <<pc, projectKeys, nLookup>>
          ELSE IF ~parsed.ok \/ ~HasSlug(parsed)
          THEN /\ pc' = "panicked"
               /\ UNCHANGED <<idx, projectKeys, nLookup>>
          ELSE /\ nLookup' = nLookup + 1
               /\ \E res \in {"found", "not found", "error"} :
                    /\ res = "found" => BuiltBySlug(parsed) # {}
                    /\ res = "not found" => BuiltBySlug(parsed) = {}
                    /\ IF res = "error"
                       THEN /\ pc' = "panicked"
                            /\ UNCHANGED <<idx, projectKeys>>
                       ELSE IF res = "not found"
                       THEN /\ idx' = idx + 1
                            /\ UNCHANGED <<pc, projectKeys>>
                       ELSE LET pr == BuiltProjects[CHOOSE i \in BuiltBySlug(parsed) : TRUE]
                            IN /\ projectKeys' =
                                    SelectSeq(projectKeys, LAMBDA e : e.url # pr.URL)
                                        \o <<[url |-> pr.URL, key |-> pr.Key]>>
                               /\ idx' = idx + 1
                               /\ UNCHANGED pc
    /\ UNCHANGED <<inputVars, lockVars, poolVars, queue, obsVars, ignoreFollowedErrors, cache, cacheErr,
                   patterns, repoURLs, followedNew, asked, nList, followLog, nSleep, addLog, selection>>

\* unfollow without a cache: the work items in an order in which the
\* projectKeys map may be ranged over
DegradedPlans(pk) ==
    {[i \in 1..Len(order) |-> WorkItem(FALSE, order[i])] :
        order \in Orders({pk[i].key : i \in 1..Len(pk)})}

\* unfollow without a cache: range over the projectKeys map and dispatch
UnfollowDegradedDispatch ==
    /\ pc = "degraded"
    /\ cmd = "unfollow"
    /\ idx > Len(patterns)
    /\ pc' = "dispatch"
    /\ queue' \in DegradedPlans(projectKeys)
    /\ etaTotal' = IF Len(projectKeys) > 0 THEN Len(projectKeys) ELSE etaTotal
    /\ UNCHANGED <<inputVars, lockVars, maxWorkers, semCur, wgCount, workers, etaDone, obsVars, cmdVars>>

(***************************************************************************)
(* FollowedProjectCache lookups.                                           *)
(***************************************************************************)
\* isAlreadyFollowedProject: the indexes of the projects with this URL
isAlreadyFollowedProject(projects, projectURL) ==
    {i \in 1..Len(projects) : ToLower(projectURL) = ToLower(projects[i].URL)}

isProtoMatch(cloneURL, projectURL) ==
    ToLower(TrimSuffix(projectURL, DotGit)) = ToLower(TrimSuffix(cloneURL, DotGit))

\* isAlreadyFollowedProto: the indexes of the proto-projects with this URL
isAlreadyFollowedProto(protoProjects, projectURL) ==
    {i \in 1..Len(protoProjects) : isProtoMatch(protoProjects[i].CloneURL, projectURL)}

\* FollowedProjectCache.IsFollowed
IsFollowed(fpc, repoURL) ==
    \/ isAlreadyFollowedProject(fpc.projects, repoURL) # {}
    \/ isAlreadyFollowedProto(fpc.proto, repoURL) # {}

\* FollowedProjectCache.RemoveFollowed
RemoveFollowed_NoDeduplicate(fpc, candidates) ==
    SelectSeq(candidates, LAMBDA u : ~IsFollowed(fpc, u))
RemoveFollowed(fpc, candidates) ==
    Deduplicate(SelectSeq(candidates, LAMBDA u : ~IsFollowed(fpc, u)))

(***************************************************************************)
(* follow and add-to-list: from the raw arguments to repoURLs.             *)
(***************************************************************************)
\* what GitHub lists for an owner: an error, or repositories (some are forks)
GithubLists ==
    {[err |-> TRUE, repos |-> <<>>],
     [err |-> FALSE, repos |-> <<>>],
     [err |-> FALSE, repos |-> <<[URL |-> githubHost \o Slash \o rawAB, fork |-> FALSE],
                                  [URL |-> githubHost \o <<"/","a","/","f">>, fork |-> TRUE]>>]}

\* one raw argument of the loop over repoURLsRaw
ResolveStep ==
    /\ pc = "action"
    /\ cmd \in {"follow", "add-to-list"}
    /\ idx < Len(Deduplicate(args))
    /\ LET raw == Deduplicate(args)[idx + 1]
           isUser == IsUserOnly(raw)
       IN IF ~isUser.ok
          THEN /\ pc' = "panicked"
               /\ UNCHANGED <<idx, repoURLs>>
          ELSE IF isUser.isWholeUser
          THEN \E gh \in GithubLists :
                 IF gh.err
                 THEN /\ pc' = "panicked"
                      /\ UNCHANGED <<idx, repoURLs>>
                 ELSE LET kept == SelectSeq(gh.repos, LAMBDA r : cmd # "follow" \/ ~r.fork)
                      IN /\ repoURLs' = repoURLs \o [i \in 1..Len(kept) |-> kept[i].URL]
                         /\ idx' = idx + 1
                         /\ UNCHANGED pc
          ELSE /\ repoURLs' = Append(repoURLs, URL(ParseGitURL(raw, FALSE)))
               /\ idx' = idx + 1
               /\ UNCHANGED pc
    /\ UNCHANGED <<inputVars, lockVars, poolVars, queue, obsVars, ignoreFollowedErrors, cache, cacheErr,
                   patterns, projectKeys, followedNew, asked, nList, nLookup, followLog,
                   nSleep, addLog, selection>>

(***************************************************************************)
(* follow                                                                  *)
(***************************************************************************)
\* --start, GetFollowedCache(noCache), RemoveFollowed, eta.New
FollowGetCache ==
    /\ pc = "action"
    /\ cmd = "follow"
    /\ idx = Len(Deduplicate(args))
    /\ \E start \in 0..2, out \in ListOutcomes :
        LET trimmed == IF start > 0 THEN SubSeq(repoURLs, start, Len(repoURLs)) ELSE repoURLs
            r == GetFollowedCache(CacheArg(cmd), out)
            toBeFollowed == IF HasCache(r) THEN RemoveFollowed(r.cache, trimmed) ELSE trimmed
        IN IF start > 0 /\ start > Len(repoURLs)
           THEN /\ pc' = "fatal"
                /\ UNCHANGED <<nList, cache, cacheErr, repoURLs, idx, etaTotal, etaDone>>
           ELSE /\ nList' = nList + r.calls
                /\ cache' = r.cache
                /\ cacheErr' = r.err
                /\ IF ~HasCache(r) /\ ~MayContinueWithoutCache
                   THEN /\ pc' = "panicked"
                        /\ UNCHANGED <<repoURLs, idx, etaTotal, etaDone>>
                   ELSE /\ pc' = "followloop"
                        /\ repoURLs' = toBeFollowed
                        /\ idx' = 1
                        /\ etaTotal' = Len(toBeFollowed)
                        /\ etaDone' = 0
    /\ UNCHANGED <<inputVars, lockVars, maxWorkers, semCur, wgCount, workers, queue, obsVars,
                   ignoreFollowedErrors, patterns, projectKeys, followedNew, asked, nLookup,
                   followLog, nSleep, addLog, selection>>

\* envelope != nil && !envelope.IsKnown(): the call succeeded and the project
\* was not known to lgtm.com before
NeedsCooldown_Always(res) == TRUE
NeedsCooldown(res) == res = "new"

\* follower(repoURL, etac): one FollowProject remote call; a new project
\* (not known to lgtm.com before) is counted and followed by a cooldown
FollowOne ==
    /\ pc = "followloop"
    /\ idx <= Len(repoURLs)
    /\ \E res \in {"err", "known", "new"} :
        /\ followLog' = Append(followLog, [url |-> repoURLs[idx], res |-> res])
        /\ etaDone' = etaDone + 1
        /\ IF NeedsCooldown(res)
           THEN /\ followedNew' = followedNew + 1
                /\ pc' = "sleep"
                /\ UNCHANGED idx
           ELSE /\ idx' = idx + 1
                /\ UNCHANGED <<followedNew, pc>>
    /\ UNCHANGED <<inputVars, lockVars, maxWorkers, semCur, wgCount, workers, etaTotal, queue, obsVars,
                   ignoreFollowedErrors, cache, cacheErr, patterns, repoURLs, projectKeys,
                   asked, nList, nLookup, nSleep, addLog, selection>>

\* time.Sleep(waitDuration)
FollowSleep ==
    /\ pc = "sleep"
    /\ nSleep' = nSleep + 1
    /\ idx' = idx + 1
    /\ pc' = "followloop"
    /\ UNCHANGED <<inputVars, lockVars, poolVars, queue, obsVars, ignoreFollowedErrors, cache, cacheErr,
                   patterns, repoURLs, projectKeys, followedNew, asked, nList, nLookup,
                   followLog, addLog, selection>>

\* the numbers of Successf("Followed %v projects (%v new)",
\* totalToBeFollowed, followedNew); etac was made with the total
FollowSummary == <<etaTotal, followedNew>>

\* Successf("Followed %v projects (%v new)"); return nil
FollowFinish ==
    /\ pc = "followloop"
    /\ idx > Len(repoURLs)
    /\ pc' = "exited"
    /\ UNCHANGED <<inputVars, lockVars, poolVars, queue, cmdVars, obsVars>>

(***************************************************************************)
(* add-to-list                                                             *)
(***************************************************************************)
\* --name, given twice
listNames == <<"L1", "L2">>

\* what the list of project selections can hold for a wanted list: the list
\* is missing and stays so, or it exists and holds these project keys
SelectionStates == {[exists |-> FALSE, keys |-> {}],
                    [exists |-> TRUE, keys |-> {}],
                    [exists |-> TRUE, keys |-> {1}]}

\* ListProjectSelections, the wanted lists (created on demand), their keys
AddPrepare ==
    /\ pc = "action"
    /\ cmd = "add-to-list"
    /\ idx = Len(Deduplicate(args))
    /\ \E ok \in BOOLEAN :
        IF ~ok
        THEN /\ pc' = "panicked"
             /\ UNCHANGED selection
        ELSE /\ pc' = "getcache"
             /\ selection' \in [{listNames[i] : i \in 1..Len(listNames)} -> SelectionStates]
    /\ UNCHANGED <<inputVars, lockVars, poolVars, queue, obsVars, ignoreFollowedErrors, cache, cacheErr,
                   patterns, repoURLs, idx, projectKeys, followedNew, asked, nList, nLookup,
                   followLog, nSleep, addLog>>

AddGetCache ==
    /\ pc = "getcache"
    /\ cmd = "add-to-list"
    /\ \E out \in ListOutcomes :
        LET r == GetFollowedCache(CacheArg(cmd), out)
        IN /\ nList' = nList + r.calls
           /\ cache' = r.cache
           /\ cacheErr' = r.err
           /\ pc' = IF ~HasCache(r) /\ ~MayContinueWithoutCache THEN "panicked" ELSE "keys"
    /\ idx' = 1
    /\ UNCHANGED <<inputVars, lockVars, poolVars, queue, obsVars, ignoreFollowedErrors, patterns,
                   repoURLs, projectKeys, followedNew, asked, nLookup, followLog, nSleep,
                   addLog, selection>>

\* RepoLoop: find the key of one repository, in the cache or by its slug
AddResolveKey ==
    /\ pc = "keys"
    /\ idx <= Len(repoURLs)
    /\ LET repoURL == repoURLs[idx]
           prs == IF cache.has THEN isAlreadyFollowedProject(cache.projects, repoURL) ELSE {}
           protos == IF cache.has THEN isAlreadyFollowedProto(cache.proto, repoURL) ELSE {}
           pr == cache.projects[CHOOSE i \in prs : \A j \in prs : i <= j]
           fromCache == IF prs # {} THEN Append(projectKeys, pr.Key) ELSE projectKeys
           parsed == ParseGitURL(repoURL, TRUE)
       IN IF prs # {} \/ protos # {}
          THEN /\ projectKeys' = fromCache
               /\ idx' = idx + 1
               /\ UNCHANGED <<pc, nLookup>>
          ELSE IF ~parsed.ok \/ ~HasSlug(parsed)
          THEN /\ pc' = "panicked"
               /\ UNCHANGED <<idx, projectKeys, nLookup>>
          ELSE /\ nLookup' = nLookup + 1
               /\ idx' = idx + 1
               /\ UNCHANGED pc
               /\ \E res \in {"found", "not found", "error"} :
                    /\ res = "found" => BuiltBySlug(parsed) # {}
                    /\ res = "not found" => BuiltBySlug(parsed) = {}
                    /\ projectKeys' =
                         IF res = "found"
                         THEN Append(projectKeys,
                                     BuiltProjects[CHOOSE i \in BuiltBySlug(parsed) : TRUE].Key)
                         ELSE projectKeys
    /\ UNCHANGED <<inputVars, lockVars, poolVars, queue, obsVars, ignoreFollowedErrors, cache, cacheErr,
                   patterns, repoURLs, followedNew, asked, nList, followLog, nSleep, addLog,
                   selection>>

\* the keys are sent in chunks of at most AddChunkSize
AddChunkSize == 100

calcChunkCount_NoRemainder(total, chunkSize) ==
    IF total < chunkSize THEN 1 ELSE total \div chunkSize
calcChunkCount(total, chunkSize) ==
    IF total < chunkSize THEN 1 ELSE (total \div chunkSize) + 1

\* utilz.SplitStringSlice(parts, slice): consecutive chunks of equal size
SplitStringSlice(parts, slice) ==
    LET size == (Len(slice) + parts - 1) \div parts
        n == IF size = 0 THEN 0 ELSE (Len(slice) + size - 1) \div size
    IN [c \in 1..n |->
            SubSeq(slice, (c - 1) * size + 1,
                   IF c * size > Len(slice) THEN Len(slice) ELSE c * size)]

\* the chunks to add to one wanted list
ChunksFor(name) ==
    LET notFollowedByThisList == SelectSeq(projectKeys, LAMBDA k : k \notin selection[name].keys)
        chunks == SplitStringSlice(calcChunkCount(Len(notFollowedByThisList), AddChunkSize),
                                   notFollowedByThisList)
    IN IF ~selection[name].exists THEN <<>>
       ELSE [c \in 1..Len(chunks) |-> [list |-> name, keys |-> chunks[c]]]

RECURSIVE AllChunks(_)
AllChunks(i) == IF i > Len(listNames) THEN <<>> ELSE ChunksFor(listNames[i]) \o AllChunks(i + 1)

\* the key loop is over: the chunks of every wanted list are queued
AddPlan ==
    /\ pc = "keys"
    /\ idx > Len(repoURLs)
    /\ queue' = AllChunks(1)
    /\ pc' = "addchunks"
    /\ UNCHANGED <<inputVars, lockVars, poolVars, cmdVars, obsVars>>

\* one AddProjectToSelection remote call; an error is a panic
AddChunk ==
    /\ pc = "addchunks"
    /\ queue # <<>>
    /\ addLog' = Append(addLog, Head(queue))
    /\ \E ok \in BOOLEAN :
        IF ok THEN /\ queue' = Tail(queue)
                   /\ UNCHANGED pc
        ELSE /\ pc' = "panicked"
             /\ UNCHANGED queue
    /\ UNCHANGED <<inputVars, lockVars, poolVars, obsVars, ignoreFollowedErrors, cache, cacheErr,
                   patterns, repoURLs, idx, projectKeys, followedNew, asked, nList, nLookup,
                   followLog, nSleep, selection>>

AddFinish ==
    /\ pc = "addchunks"
    /\ queue = <<>>
    /\ pc' = "exited"
    /\ UNCHANGED <<inputVars, lockVars, poolVars, queue, cmdVars, obsVars>>

(***************************************************************************)
(* Spec: one run of a command.                                             *)
(***************************************************************************)
UnfollowArgs == {<<rawAB>>, <<rawA>>, <<rawStarStar>>, <<rawAB, rawCStar>>, <<rawXY>>,
                 <<rawTooDeep>>, <<rawGithubStar>>, <<rawGitlabStar>>,
                 <<rawA, rawCStar, rawAE, rawAB>>}
FollowArgs == {<<rawAB, rawXY>>, <<rawA>>, <<rawXY, rawAE, rawXY>>}
AddToListArgs == {<<rawAB, rawXY>>, <<rawAE>>}

Init ==
    /\ cmd \in {"unfollow-all", "unfollow", "follow", "add-to-list"}
    /\ args \in CASE cmd = "unfollow" -> UnfollowArgs
                  [] cmd = "follow" -> FollowArgs
                  [] cmd = "add-to-list" -> AddToListArgs
                  [] OTHER -> {<<>>}
    /\ noCache \in BOOLEAN
    /\ ignoreFollowedErrors \in BOOLEAN
    /\ noProjects \in (IF cmd = "unfollow-all" THEN BOOLEAN ELSE {FALSE})
    /\ noProto \in (IF cmd = "unfollow-all" THEN BOOLEAN ELSE {FALSE})
    /\ CmdVarsInit
    /\ cache = NilCache
    /\ maxWorkers = 0
    /\ semCur = 0
    /\ wgCount = 0
    /\ workers = <<>>
    /\ etaTotal = 0
    /\ etaDone = 0
    /\ pc = "start"
    /\ queue = <<>>
    /\ unfollowCalls = [k \in 1..(MaxItems + 1) |-> 0]
    /\ succeeded = {}
    /\ failed = {}

Next ==
    \/ Before
    \/ UnfollowAll
    \/ UnfollowCompile
    \/ UnfollowConfirm
    \/ UnfollowGetCache
    \/ UnfollowDegradedStep
    \/ UnfollowDegradedDispatch
    \/ ResolveStep
    \/ FollowGetCache
    \/ FollowOne
    \/ FollowSleep
    \/ FollowFinish
    \/ AddPrepare
    \/ AddGetCache
    \/ AddResolveKey
    \/ AddPlan
    \/ AddChunk
    \/ AddFinish
    \/ Unfollow
    \/ (\E i \in DOMAIN workers : Take(i))
    \/ (\E i \in DOMAIN workers : Issue(i))
    \/ (\E i \in DOMAIN workers : Return(i))
    \/ (\E i \in DOMAIN workers : RunDeferred(i))
    \/ Wait
    \/ Exit

Spec == Init /\ [][Next]_vars

(***************************************************************************)
(* SpecCache: a FollowedProjectCache whose Refresh runs concurrently with  *)
(* lookups of another goroutine.                                           *)
(***************************************************************************)
\* how many times Refresh is called
MaxRefresh == 2

\* a later answer of ListFollowedProjects: c/d is still followed, the rest is not
LaterProjects == <<RemoteProjects[2]>>
LaterProto == <<>>

RefreshOutcomes ==
    {[err |-> TRUE, projects |-> <<>>, proto |-> <<>>],
     [err |-> FALSE, projects |-> RemoteProjects, proto |-> RemoteProto],
     [err |-> FALSE, projects |-> LaterProjects, proto |-> LaterProto]}

\* sync.RWMutex: RLock waits for the writer, Lock for the writer and the readers
RLockEnabled_NoWait == TRUE
RLockEnabled == ~mu.writer
LockEnabled == ~mu.writer /\ mu.readers = 0

\* Refresh: an error of ListFollowedProjects is returned at once
AfterList_StoreAnyway(out) == "fetched"
AfterList(out) == IF out.err THEN "returned" ELSE "fetched"

\* Refresh is called
RefreshBegin ==
    /\ refresher.pc \in {"idle", "returned"}
    /\ nList < MaxRefresh
    /\ refresher' = [IdleRefresher EXCEPT !.pc = "began",
                                          !.before = <<cache.projects, cache.proto>>]
    /\ UNCHANGED <<inputVars, mu, reader, poolVars, mainVars, cmdVars, obsVars>>

\* projects, protoProjects, err := fpc.client.ListFollowedProjects()
RefreshList ==
    /\ refresher.pc = "began"
    /\ nList' = nList + 1
    /\ \E out \in RefreshOutcomes :
        refresher' = [refresher EXCEPT !.pc = AfterList(out),
                                       !.calls = @ + 1,
                                       !.failed = out.err,
                                       !.ret = IF AfterList(out) = "returned" THEN "err" ELSE @,
                                       !.fetched = <<out.projects, out.proto>>]
    /\ UNCHANGED <<inputVars, mu, reader, poolVars, mainVars, obsVars, ignoreFollowedErrors,
                   cache, cacheErr, patterns, repoURLs, idx, projectKeys, followedNew, asked,
                   nLookup, followLog, nSleep, addLog, selection>>

\* fpc.mu.Lock()
RefreshLock ==
    /\ refresher.pc = "fetched"
    /\ LockEnabled
    /\ mu' = [mu EXCEPT !.writer = TRUE]
    /\ refresher' = [refresher EXCEPT !.pc = "locked"]
    /\ UNCHANGED <<inputVars, reader, poolVars, mainVars, cmdVars, obsVars>>

\* fpc.projects = projects
RefreshStoreProjects ==
    /\ refresher.pc = "locked"
    /\ cache' = [cache EXCEPT !.projects = refresher.fetched[1]]
    /\ refresher' = [refresher EXCEPT !.pc = "stored projects"]
    /\ UNCHANGED <<inputVars, mu, reader, poolVars, mainVars, obsVars, ignoreFollowedErrors,
                   cacheErr, patterns, repoURLs, idx, projectKeys, followedNew, asked, nList,
                   nLookup, followLog, nSleep, addLog, selection>>

\* fpc.proto = protoProjects
RefreshStoreProto ==
    /\ refresher.pc = "stored projects"
    /\ cache' = [cache EXCEPT !.proto = refresher.fetched[2]]
    /\ refresher' = [refresher EXCEPT !.pc = "stored proto"]
    /\ UNCHANGED <<inputVars, mu, reader, poolVars, mainVars, obsVars, ignoreFollowedErrors,
                   cacheErr, patterns, repoURLs, idx, projectKeys, followedNew, asked, nList,
                   nLookup, followLog, nSleep, addLog, selection>>

\* return nil, with the deferred fpc.mu.Unlock()
RefreshUnlock ==
    /\ refresher.pc = "stored proto"
    /\ mu' = [mu EXCEPT !.writer = FALSE]
    /\ refresher' = [refresher EXCEPT !.pc = "returned", !.ret = "nil"]
    /\ UNCHANGED <<inputVars, reader, poolVars, mainVars, cmdVars, obsVars>>

\* IsFollowed, GetProject or GetProto is called: fpc.mu.RLock()
LookupRLock ==
    /\ reader.pc \in {"idle", "returned"}
    /\ RLockEnabled
    /\ mu' = [mu EXCEPT !.readers = @ + 1]
    /\ \E op \in {"IsFollowed", "GetProject", "GetProto"} :
        reader' = [IdleReader EXCEPT !.pc = "rlocked", !.op = op]
    /\ UNCHANGED <<inputVars, refresher, poolVars, mainVars, cmdVars, obsVars>>

\* isAlreadyFollowedProject(fpc.projects, repoURL)
LookupReadProjects ==
    /\ reader.pc = "rlocked"
    /\ reader.op \in {"IsFollowed", "GetProject"}
    /\ reader' = [reader EXCEPT !.pc = IF reader.op = "IsFollowed" THEN "read projects"
                                       ELSE "read all",
                                !.sawProjects = cache.projects]
    /\ UNCHANGED <<inputVars, mu, refresher, poolVars, mainVars, cmdVars, obsVars>>

\* isAlreadyFollowedProto(fpc.proto, repoURL)
LookupReadProto ==
    /\ \/ reader.pc = "read projects"
       \/ reader.pc = "rlocked" /\ reader.op = "GetProto"
    /\ reader' = [reader EXCEPT !.pc = "read all", !.sawProto = cache.proto]
    /\ UNCHANGED <<inputVars, mu, refresher, poolVars, mainVars, cmdVars, obsVars>>

\* the lookup returns, with the deferred fpc.mu.RUnlock()
LookupRUnlock ==
    /\ reader.pc = "read all"
    /\ mu' = [mu EXCEPT !.readers = @ - 1]
    /\ reader' = [reader EXCEPT !.pc = "returned"]
    /\ UNCHANGED <<inputVars, refresher, poolVars, mainVars, cmdVars, obsVars>>

\* NewFollowedProjectCache: no projects, no proto-projects, a fresh mutex
InitCache ==
    /\ cmd = "cache"
    /\ args = <<>>
    /\ noCache = FALSE
    /\ ignoreFollowedErrors = FALSE
    /\ noProjects = FALSE
    /\ noProto = FALSE
    /\ CmdVarsInit
    /\ cache = [has |-> TRUE, projects |-> <<>>, proto |-> <<>>]
    /\ maxWorkers = 0
    /\ semCur = 0
    /\ wgCount = 0
    /\ workers = <<>>
    /\ etaTotal = 0
    /\ etaDone = 0
    /\ pc = "start"
    /\ queue = <<>>
    /\ unfollowCalls = [k \in 1..(MaxItems + 1) |-> 0]
    /\ succeeded = {}
    /\ failed = {}

NextCache ==
    \/ RefreshBegin
    \/ RefreshList
    \/ RefreshLock
    \/ RefreshStoreProjects
    \/ RefreshStoreProto
    \/ RefreshUnlock
    \/ LookupRLock
    \/ LookupReadProjects
    \/ LookupReadProto
    \/ LookupRUnlock

SpecCache == InitCache /\ [][NextCache]_vars

(***************************************************************************)
(* SpecPure: the pure functions of the program applied to inputs drawn     *)
(* from bounded sets. cmd names the function, args holds its inputs and    *)
(* queue collects the results of its successive applications.              *)
(***************************************************************************)
\* how many ".git" suffixes an input string may carry
MaxDotGit == 2

\* s followed by n times ".git"
RECURSIVE WithDotGit(_, _)
WithDotGit(s, n) == IF n = 0 THEN s ELSE WithDotGit(s, n - 1) \o DotGit

\* URLs and clone URLs given to trimDotGit and isProtoMatch
PureBases == {<<>>, <<"x">>, <<"X">>, <<"x", ".", "g">>, githubHost \o Slash \o rawAE}
PureStrings == {WithDotGit(b, n) : b \in PureBases, n \in 0..MaxDotGit}

\* raw identifiers given to ParseGitURL
PureRaws ==
    {WithDotGit(r, n) : r \in {rawAB, rawA, <<"A","/","B">>}, n \in 0..MaxDotGit}
    \cup {rawCStar, rawStarStar, rawTooDeep, <<>>, <<"/","a","/">>,
          <<"g","i","t","h","u","b",".","c","o","m","/","a","/","b">>,
          githubHost \o Slash \o rawAB \o Slash,
          <<"h","t","t","p",":","/","/","G","i","t","h","u","b",".","c","o","m",":","8","0","/","a","/","b">>}

\* every variable but queue
pureFrame == <<inputVars, lockVars, poolVars, pc, cmdVars, obsVars>>

\* trimDotGit applied to the input, then to its own result
ApplyTrimDotGit ==
    /\ cmd = "trimDotGit"
    /\ Len(queue) < 2
    /\ queue' = Append(queue, trimDotGit(IF queue = <<>> THEN args[1] ELSE queue[Len(queue)]))
    /\ UNCHANGED pureFrame

\* isProtoMatch(c, u), then isProtoMatch(c + ".git", u), then isProtoMatch(c, u + ".git")
ApplyIsProtoMatch ==
    /\ cmd = "isProtoMatch"
    /\ Len(queue) < 3
    /\ queue' = Append(queue,
                       CASE Len(queue) = 0 -> isProtoMatch(args[1], args[2])
                         [] Len(queue) = 1 -> isProtoMatch(args[1] \o DotGit, args[2])
                         [] Len(queue) = 2 -> isProtoMatch(args[1], args[2] \o DotGit))
    /\ UNCHANGED pureFrame

\* what a caller keeps of ParseGitURL(raw, false): the error, or parsed.URL()
Canonical(grl) == IF grl.ok THEN [ok |-> TRUE, url |-> URL(grl)] ELSE [ok |-> FALSE, url |-> <<>>]

\* ParseGitURL(r, false).URL(), then the same on the canonical URL it gave
ApplyParseGitURL ==
    /\ cmd = "ParseGitURL"
    /\ \/ queue = <<>>
       \/ Len(queue) = 1 /\ queue[1].ok
    /\ queue' = Append(queue,
                       Canonical(ParseGitURL(IF queue = <<>> THEN args[1] ELSE queue[1].url,
                                             FALSE)))
    /\ UNCHANGED pureFrame

\* how many candidates RemoveFollowed is given
MaxCand == 3

\* how many keys add-to-list has to send
MaxKeys == 210

\* candidate URLs: followed as a project (in two spellings), followed as a
\* proto-project (with and without .git), not followed (one of them in two
\* spellings)
CandURLs == {githubHost \o Slash \o rawAB,
             githubHost \o <<"/","A","/","B">>,
             githubHost \o Slash \o rawAE,
             githubHost \o Slash \o rawAE \o DotGit,
             githubHost \o Slash \o rawXY,
             githubHost \o <<"/","c","/","d">> \o DotGit,
             githubHost \o <<"/","b","/","a">>,
             githubHost \o <<"/","B","/","A">>}
PureCandidates == UNION {[1..n -> CandURLs] : n \in 0..MaxCand}

\* populated caches
PureCaches == {[has |-> TRUE, projects |-> RemoteProjects, proto |-> RemoteProto],
               [has |-> TRUE, projects |-> LaterProjects, proto |-> RemoteProto]}

\* compiled patterns of unfollow
PurePatterns == {<<githubHost \o <<"/","a","/","*">> >>,
                 <<githubHost \o <<"/","*","/","*">> >>,
                 <<githubHost \o <<"/","c","/","d">>, githubHost \o Slash \o rawAE>>,
                 <<githubHost \o Slash \o rawXY>>}

\* the projectKeys maps the lookups of the degraded unfollow can build
PureProjectKeys ==
    {SelectSeq([i \in 1..Len(BuiltProjects) |->
                    [url |-> BuiltProjects[i].URL, key |-> BuiltProjects[i].Key]],
               LAMBDA e : e.key \in S) : S \in SUBSET {1, 2, 4}}

\* RemoveFollowed on the same cache and candidates, twice
ApplyRemoveFollowed ==
    /\ cmd = "RemoveFollowed"
    /\ Len(queue) < 2
    /\ queue' = Append(queue, RemoveFollowed(cache, args))
    /\ UNCHANGED pureFrame

\* the matching of unfollow on the same cache and patterns, twice
ApplyMatchedItems ==
    /\ cmd = "MatchedItems"
    /\ Len(queue) < 2
    /\ queue' = Append(queue, MatchedItems(cache, args))
    /\ UNCHANGED pureFrame

\* the dispatch order of the degraded unfollow on the same projectKeys, twice
ApplyDegradedPlans ==
    /\ cmd = "DegradedPlans"
    /\ Len(queue) < 2
    /\ \E plan \in DegradedPlans(projectKeys) : queue' = Append(queue, plan)
    /\ UNCHANGED pureFrame

\* add-to-list: n keys split into calcChunkCount(n, 100) chunks
ApplySplitStringSlice ==
    /\ cmd = "calcChunkCount"
    /\ queue = <<>>
    /\ queue' = <<SplitStringSlice(calcChunkCount(args[1], AddChunkSize),
                                   [i \in 1..args[1] |-> i])>>
    /\ UNCHANGED pureFrame

\* how many importers pkg.go.dev lists
MaxImporters == 3

\* what getImportersOfGolangPackage found: n distinct repository roots
Importers(n) == [i \in 1..n |-> i]

\* GetImportersOfGolangPackage once the page was fetched and parsed (found),
\* or not (failed): the error, or the importers cut to the limit
GetImportersOfGolangPackage(fetchFailed, deps, limit) ==
    IF fetchFailed THEN [err |-> TRUE, deps |-> <<>>]
    ELSE IF limit > 0 /\ Len(deps) > limit
    THEN [err |-> FALSE, deps |-> SubSeq(deps, 1, limit - 1)]
    ELSE [err |-> FALSE, deps |-> deps]

\* GetImportersOfGolangPackage(pkg, limit) on a page of n importers, then on a
\* page of n + 1
ApplyGetImporters ==
    /\ cmd = "GetImportersOfGolangPackage"
    /\ Len(queue) < 2
    /\ \E fetchFailed \in BOOLEAN :
        queue' = Append(queue, GetImportersOfGolangPackage(fetchFailed,
                                    Importers(args[1] + Len(queue)), args[2]))
    /\ UNCHANGED pureFrame

(***************************************************************************)
(* query: from repoURLs to the project keys of the query that is sent.     *)
(***************************************************************************)
\* Project.Languages and Project.DisplayName of the built projects, by Key
ProjectLanguages == <<{"go"}, {"go", "java"}, {}, {"java"}>>
ProjectDisplayName == <<rawAB, <<"c","/","d">>, <<>>, rawXY>>

\* Project.SupportsLanguage
SupportsLanguage(pr, lang) == lang \in ProjectLanguages[pr.Key]

\* the project passes the language and --exclude checks of query
QueryAccepts(pr, lang, excluded) ==
    /\ SupportsLanguage(pr, lang)
    /\ \A i \in 1..Len(excluded) : excluded[i] # ProjectDisplayName[pr.Key]

\* FollowedProjectCache.GetProject: the first project with this URL, if any
GetProject(fpc, repoURL) ==
    LET found == isAlreadyFollowedProject(fpc.projects, repoURL)
    IN IF found = {} THEN <<>>
       ELSE <<fpc.projects[CHOOSE i \in found : \A j \in found : i <= j]>>

\* query with a cache: --all-followed appends the followed projects; protos,
\* projects not followed, without the language or excluded are skipped
QueryWithCache(fpc, repoURLs_, allFollowed, lang, excluded) ==
    LET all == Deduplicate(repoURLs_ \o (IF allFollowed
                                          THEN [i \in 1..Len(fpc.projects) |-> fpc.projects[i].URL]
                                          ELSE <<>>))
        kept == SelectSeq(all, LAMBDA u :
                    /\ isAlreadyFollowedProto(fpc.proto, u) = {}
                    /\ GetProject(fpc, u) # <<>>
                    /\ QueryAccepts(GetProject(fpc, u)[1], lang, excluded))
    IN [panic |-> FALSE, keys |-> [i \in 1..Len(kept) |-> GetProject(fpc, kept[i])[1].Key]]

\* query without a cache: each complete URL is looked up by slug; a lookup
\* that fails (lookupErr) panics, a project that is not built is skipped
QueryWithoutCache(repoURLs_, lang, excluded, lookupErr) ==
    LET F[i \in 0..Len(repoURLs_)] ==
            IF i = 0 THEN [panic |-> FALSE, keys |-> <<>>]
            ELSE LET prev == F[i - 1]
                     parsed == ParseGitURL(repoURLs_[i], TRUE)
                 IN IF prev.panic \/ isGlob(repoURLs_[i]) THEN prev
                    ELSE IF ~parsed.ok THEN [prev EXCEPT !.panic = TRUE]
                    ELSE IF parsed.Repo = <<>> THEN prev
                    ELSE IF ~HasSlug(parsed) \/ lookupErr THEN [prev EXCEPT !.panic = TRUE]
                    ELSE IF BuiltBySlug(parsed) = {} THEN prev
                    ELSE LET pr == BuiltProjects[CHOOSE b \in BuiltBySlug(parsed) : TRUE]
                         IN IF QueryAccepts(pr, lang, excluded)
                            THEN [prev EXCEPT !.keys = Append(@, pr.Key)]
                            ELSE prev
    IN F[Len(repoURLs_)]

\* the projectkeys of the query Action: nothing is selected unless repoURLs
\* holds something
QueryProjectKeys(fpc, mayContinue, repoURLs_, allFollowed, lang, excluded, lookupErr) ==
    IF Len(repoURLs_) = 0 THEN [panic |-> FALSE, keys |-> <<>>]
    ELSE IF ~fpc.has /\ ~mayContinue THEN [panic |-> TRUE, keys |-> <<>>]
    ELSE IF fpc.has THEN QueryWithCache(fpc, repoURLs_, allFollowed, lang, excluded)
    ELSE QueryWithoutCache(repoURLs_, lang, excluded, lookupErr)

\* the repoURLs query computes from its arguments
QueryRepoURLs == {<<>>,
                  <<githubHost \o Slash \o rawAB>>,
                  <<githubHost \o Slash \o rawXY>>,
                  <<githubHost \o Slash \o rawAE>>,
                  <<githubHost \o <<"/","c","/","d">>, githubHost \o Slash \o rawAB>>}

\* args of query: repoURLs, --all-followed, --lang, --exclude
QueryArgs == QueryRepoURLs \X BOOLEAN \X {"go", "java"} \X {<<>>, <<rawAB>>}

\* query: select the project keys, ask for confirmation, send the query
ApplyQuery ==
    /\ cmd = "query"
    /\ queue = <<>>
    /\ \E lookupErr \in BOOLEAN, yes \in BOOLEAN :
        LET sel == QueryProjectKeys(cache, MayContinueWithoutCache, args[1], args[2],
                                    args[3], args[4], lookupErr)
        IN queue' = <<[panic |-> sel.panic, sent |-> ~sel.panic /\ yes, keys |-> sel.keys]>>
    /\ UNCHANGED pureFrame

InitPure ==
    /\ cmd \in {"trimDotGit", "isProtoMatch", "ParseGitURL", "RemoveFollowed",
                "MatchedItems", "DegradedPlans", "calcChunkCount",
                "GetImportersOfGolangPackage", "query"}
    /\ args \in CASE cmd = "trimDotGit" -> {<<u>> : u \in PureStrings}
                  [] cmd = "isProtoMatch" -> PureStrings \X PureStrings
                  [] cmd = "ParseGitURL" -> {<<r>> : r \in PureRaws}
                  [] cmd = "RemoveFollowed" -> PureCandidates
                  [] cmd = "MatchedItems" -> PurePatterns
                  [] cmd = "DegradedPlans" -> {<<>>}
                  [] cmd = "calcChunkCount" -> {<<n>> : n \in 0..MaxKeys}
                  [] cmd = "GetImportersOfGolangPackage" ->
                        (0..MaxImporters) \X (0..(MaxImporters + 1))
                  [] cmd = "query" -> QueryArgs
    /\ cache \in CASE cmd \in {"RemoveFollowed", "MatchedItems"} -> PureCaches
                   [] cmd = "query" -> PureCaches \cup {NilCache}
                   [] OTHER -> {NilCache}
    /\ projectKeys \in IF cmd = "DegradedPlans" THEN PureProjectKeys ELSE {<<>>}
    /\ noCache = FALSE
    /\ ignoreFollowedErrors \in IF cmd = "query" THEN BOOLEAN ELSE {FALSE}
    /\ noProjects = FALSE
    /\ noProto = FALSE
    /\ cacheErr = IF cmd = "query" /\ ~cache.has THEN "list" ELSE "nil"
    /\ patterns = <<>>
    /\ repoURLs = <<>>
    /\ idx = 0
    /\ followedNew = 0
    /\ asked = 0
    /\ nList = 0
    /\ nLookup = 0
    /\ followLog = <<>>
    /\ nSleep = 0
    /\ addLog = <<>>
    /\ selection = <<>>
    /\ mu = [readers |-> 0, writer |-> FALSE]
    /\ refresher = IdleRefresher
    /\ reader = IdleReader
    /\ maxWorkers = 0
    /\ semCur = 0
    /\ wgCount = 0
    /\ workers = <<>>
    /\ etaTotal = 0
    /\ etaDone = 0
    /\ queue = <<>>
    /\ pc = "pure"
    /\ unfollowCalls = [k \in 1..(MaxItems + 1) |-> 0]
    /\ succeeded = {}
    /\ failed = {}

NextPure ==
    \/ ApplyTrimDotGit
    \/ ApplyIsProtoMatch
    \/ ApplyParseGitURL
    \/ ApplyRemoveFollowed
    \/ ApplyMatchedItems
    \/ ApplyDegradedPlans
    \/ ApplySplitStringSlice
    \/ ApplyGetImporters
    \/ ApplyQuery

SpecPure == InitPure /\ [][NextPure]_vars

(***************************************************************************)
(* Properties of the pure functions.                                       *)
(***************************************************************************)
\* c is followed in the cache K: it is the URL of a project up to case, or
\* the clone URL of a proto-project up to case and a trailing ".git"
FollowedIn(K, c) ==
    \/ \E i \in 1..Len(K.projects) : ToLower(c) = ToLower(K.projects[i].URL)
    \/ \E i \in 1..Len(K.proto) :
            ToLower(TrimSuffix(c, DotGit)) = ToLower(TrimSuffix(K.proto[i].CloneURL, DotGit))

\* the index of the first occurrence of x in the sequence C
FirstIndex(C, x) == CHOOSE i \in 1..Len(C) : C[i] = x /\ \A j \in 1..(i - 1) : C[j] # x

\* C11: RemoveFollowed(C) on a populated cache holds only candidates of C that
\* are not followed, holds every candidate that is not followed, holds none
\* twice, and keeps them in the order of their first occurrence in C.
C11_RemoveFollowed ==
    (cmd = "RemoveFollowed" /\ Len(queue) >= 1) =>
        /\ \A i \in 1..Len(queue[1]) :
            /\ \E j \in 1..Len(args) : args[j] = queue[1][i]
            /\ ~FollowedIn(cache, queue[1][i])
        /\ \A j \in 1..Len(args) :
            ~FollowedIn(cache, args[j]) => \E i \in 1..Len(queue[1]) : queue[1][i] = args[j]
        /\ \A i, j \in 1..Len(queue[1]) :
            i < j => FirstIndex(args, queue[1][i]) < FirstIndex(args, queue[1][j])

\* a followed project in another spelling, then twice the same unfollowed
\* repository: one candidate is left
C11_Witness ==
    /\ cmd = "RemoveFollowed"
    /\ Len(queue) >= 1
    /\ args = <<githubHost \o <<"/","A","/","B">>, githubHost \o Slash \o rawXY,
                githubHost \o Slash \o rawXY>>
    /\ queue[1] = <<githubHost \o Slash \o rawXY>>

\* C12: planning twice on the same inputs gives the same work items in the
\* same order, for RemoveFollowed, for the matching of unfollow with a cache
\* and for the dispatch of unfollow without a cache.
C12_Deterministic ==
    (cmd \in {"RemoveFollowed", "MatchedItems", "DegradedPlans"} /\ Len(queue) = 2) =>
        queue[1] = queue[2]

\* C13: trimDotGit applied to its own result changes nothing.
C13_TrimDotGitIdempotent ==
    (cmd = "trimDotGit" /\ Len(queue) = 2) => queue[2] = queue[1]

\* C14: isProtoMatch(c, u), isProtoMatch(c + ".git", u) and
\* isProtoMatch(c, u + ".git") agree.
C14_ProtoMatchSymmetric ==
    (cmd = "isProtoMatch" /\ Len(queue) = 3) => (queue[1] = queue[2] /\ queue[1] = queue[3])

\* C15: the canonical URL of an accepted raw identifier parses again, to the
\* same canonical URL.
C15_CanonicalIdempotent ==
    (cmd = "ParseGitURL" /\ Len(queue) = 2) => (queue[2].ok /\ queue[2].url = queue[1].url)

\* the sum of the lengths of the chunks from the c-th one on
RECURSIVE KeysSent(_, _)
KeysSent(chunks, c) == IF c > Len(chunks) THEN 0 ELSE Len(chunks[c]) + KeysSent(chunks, c + 1)

\* C19: n keys split evenly into calcChunkCount(n, 100) chunks: no chunk holds
\* more than 100 keys, every key is in a chunk and the chunks hold n keys in all
\* (so every key is sent exactly once).
C19_ChunksOfAtMost100 ==
    (cmd = "calcChunkCount" /\ Len(queue) = 1) =>
        /\ \A c \in 1..Len(queue[1]) : Len(queue[1][c]) <= 100
        /\ \A k \in 1..args[1] :
            \E c \in 1..Len(queue[1]) : \E j \in 1..Len(queue[1][c]) : queue[1][c][j] = k
        /\ KeysSent(queue[1], 1) = args[1]

\* 201 keys go out in three chunks
C19_Witness ==
    /\ cmd = "calcChunkCount"
    /\ args = <<201>>
    /\ Len(queue) = 1
    /\ Len(queue[1]) = 3

\* u and v denote the same repository under the matching rule of the cache
SameRepo(u, v) == ToLower(TrimSuffix(u, DotGit)) = ToLower(TrimSuffix(v, DotGit))

\* C29: no two entries of the delta RemoveFollowed returns denote the same
\* repository up to case and a trailing ".git".
C29_DeltaOneEntryPerRepo ==
    (cmd = "RemoveFollowed" /\ Len(queue) >= 1) =>
        \A i, j \in 1..Len(queue[1]) : i < j => ~SameRepo(queue[1][i], queue[1][j])

\* C30: with n importers found and a limit L, GetImportersOfGolangPackage
\* returns the first min(L, n) of them when L > 0 and all of them when L = 0,
\* so it returns no fewer when one more importer is found.
C30_FirstLimitImporters ==
    (cmd = "GetImportersOfGolangPackage" /\ queue # <<>>) =>
        LET n == args[1]
            L == args[2]
        IN /\ ~queue[1].err =>
                queue[1].deps = SubSeq(Importers(n), 1,
                                       IF L > 0 /\ L < n THEN L ELSE n)
           /\ (Len(queue) = 2 /\ ~queue[1].err /\ ~queue[2].err) =>
                Len(queue[2].deps) >= Len(queue[1].deps)

\* the followed projects of the cache K that query accepts
QueryableKeys(K, lang, excluded) ==
    {K.projects[i].Key : i \in {j \in 1..Len(K.projects) :
                                    QueryAccepts(K.projects[j], lang, excluded)}}

\* C27: with a cache, no repository given and --all-followed set, the query
\* that is sent names all followed projects that support the language and
\* are not excluded.
C27_AllFollowedQueried ==
    (cmd = "query" /\ queue # <<>> /\ cache.has /\ args[1] = <<>> /\ args[2]) =>
        /\ ~queue[1].panic
        /\ queue[1].sent =>
            {queue[1].keys[i] : i \in 1..Len(queue[1].keys)}
                = QueryableKeys(cache, args[3], args[4])

(***************************************************************************)
(* Properties of the pool.                                                 *)
(***************************************************************************)
\* C1: with an Unfollower of weight W, neither the number of unfollow remote
\* calls in flight nor the number of semaphore permits held ever exceeds W
\* (so a dispatch attempted while W permits are held has to wait).
C1_BoundedConcurrency ==
    /\ Cardinality(InFlight) <= maxWorkers
    /\ semCur <= maxWorkers

\* W calls are in flight, all permits are held and a dispatch is waiting
C1_Witness ==
    /\ Cardinality(InFlight) = maxWorkers
    /\ semCur = maxWorkers
    /\ pc = "dispatch"
    /\ queue # <<>>

\* C2: when Wait() has returned, every dispatched work item has finished its
\* remote call (with success or with an error) and no permit is held.
C2_WaitAfterAll ==
    pc = "waited" =>
        /\ \A i \in DOMAIN workers : workers[i].res \in {"ok", "err"}
        /\ semCur = 0

\* Wait() returned after several items, one of which failed
C2_Witness ==
    /\ pc = "waited"
    /\ Len(workers) >= 2
    /\ \E i \in DOMAIN workers : workers[i].res = "err"
    /\ \E i \in DOMAIN workers : workers[i].res = "ok"

\* C17: under fair scheduling, with every remote call returning, the pool
\* reaches and keeps the state in which every item of the batch has been
\* admitted (no dispatch is left waiting for a permit), every dispatched item
\* has run to its end, and Wait() has returned.
C17_PoolCompletes ==
    <>[](/\ pc = "waited"
         /\ queue = <<>>
         /\ Len(workers) = etaTotal
         /\ \A i \in DOMAIN workers : workers[i].pc = "finished")

\* a pool of weight 1 brought a full batch through and Wait returned
C17_Witness ==
    /\ pc = "waited"
    /\ maxWorkers = 1
    /\ Len(workers) = MaxItems
    /\ \A i \in DOMAIN workers : workers[i].pc = "finished"

(***************************************************************************)
(* Properties of the commands.                                             *)
(***************************************************************************)
UnfollowCommands == {"unfollow-all", "unfollow"}

\* the keys of the work items handed to the pool so far
DispatchedKeys == {workers[i].key : i \in DOMAIN workers}

\* C3: whatever subset of the dispatched unfollow items fails, the command
\* does not abort; once Wait() has returned every planned item was dispatched
\* and has had its remote call, the items reported as unfollowed are exactly
\* the dispatched ones that did not fail, and the process ends with exit code 0.
C3_PartialFailure ==
    (cmd \in UnfollowCommands /\ workers # <<>>) =>
        /\ pc \in Terminated => ExitCode = 0
        /\ pc \in {"waited", "exited"} =>
            /\ queue = <<>>
            /\ \A k \in DispatchedKeys : unfollowCalls[k] >= 1
            /\ \A i \in DOMAIN workers : workers[i].res \in {"ok", "err"}
            /\ succeeded = DispatchedKeys \ failed

\* the command returned after three items, of which some failed and some not
C3_Witness ==
    /\ cmd \in UnfollowCommands
    /\ pc = "exited"
    /\ Len(workers) = 3
    /\ failed # {}
    /\ succeeded # {}

\* the keys of the followed entries the command selects from its snapshot
SelectedKeys ==
    IF cmd = "unfollow-all"
    THEN {cache.projects[i].Key : i \in {j \in 1..Len(cache.projects) : ~noProjects}}
         \cup {cache.proto[i].Key : i \in {j \in 1..Len(cache.proto) : ~noProto}}
    ELSE {cache.projects[i].Key :
            i \in {j \in 1..Len(cache.projects) : HasMatch(cache.projects[j].URL, patterns)}}
         \cup {cache.proto[i].Key :
            i \in {j \in 1..Len(cache.proto) :
                    HasMatch(trimDotGit(cache.proto[j].CloneURL), patterns)}}

\* C4: with a snapshot, no key ever gets a second unfollow call (a failed call
\* is not retried), no entry that is not selected gets one, and when the
\* command has returned every selected entry has had exactly one.
C4_ExactlyOnce ==
    (cmd \in UnfollowCommands /\ cache.has) =>
        /\ \A k \in DOMAIN unfollowCalls : unfollowCalls[k] <= 1
        /\ \A k \in DOMAIN unfollowCalls : k \notin SelectedKeys => unfollowCalls[k] = 0
        /\ pc = "exited" => \A k \in SelectedKeys : unfollowCalls[k] = 1

\* unfollow with a pattern has returned: two entries selected, one failed
C4_Witness ==
    /\ cmd = "unfollow"
    /\ cache.has
    /\ pc = "exited"
    /\ Cardinality(SelectedKeys) = 2
    /\ failed # {}

\* remote calls that unfollow or look up, issued so far
NoUnfollowCall == \A k \in DOMAIN unfollowCalls : unfollowCalls[k] = 0

\* C5: in unfollow, when a compiled pattern is detected as matching
\* everything, the followed list is fetched and unfollow calls are issued only
\* after the user was asked; if the user declined, no unfollow call is issued.
C5_ConfirmFirst ==
    (cmd = "unfollow" /\ Len(getGlobsThatMatchEverything(patterns)) > 0) =>
        /\ (nList > 0 \/ nLookup > 0 \/ ~NoUnfollowCall \/ workers # <<>>) => asked = 1
        /\ pc = "aborted" => (NoUnfollowCall /\ nList = 0 /\ workers = <<>>)

\* the user confirmed and the followed entries were then unfollowed
C5_Witness ==
    /\ cmd = "unfollow"
    /\ Len(getGlobsThatMatchEverything(patterns)) > 0
    /\ asked = 1
    /\ nList = 1
    /\ ~NoUnfollowCall

\* C6: in follow and unfollow, when fetching the followed list failed and
\* neither --ignore-followed-errors nor --nocache is set, the command has
\* aborted with a non-zero exit code and issued no follow or unfollow call.
C6_AbortOnListError ==
    (cmd \in {"follow", "unfollow"} /\ cacheErr = "list"
        /\ ~ignoreFollowedErrors /\ ~noCache) =>
        /\ pc = "panicked"
        /\ ExitCode # 0
        /\ followLog = <<>>
        /\ NoUnfollowCall
        /\ workers = <<>>

\* follow aborted because the list could not be fetched
C6_Witness ==
    /\ cmd = "follow"
    /\ cacheErr = "list"
    /\ ~ignoreFollowedErrors
    /\ nList = 1
    /\ pc = "panicked"

\* the command aborted because it has no cache
AbortedForLackOfCache ==
    /\ pc = "panicked"
    /\ cacheErr # "nil"
    /\ (cmd = "unfollow-all" \/ ~ignoreFollowedErrors)

\* the main goroutine is past its call of GetFollowedCache and goes on
PastCacheStep ==
    pc \in {"degraded", "dispatch", "waited", "followloop", "sleep", "keys", "addchunks"}

C10_DisabledCache ==
    (noCache /\ cmd \in {"unfollow", "follow", "add-to-list"} /\ PastCacheStep) =>
        /\ ~cache.has
        /\ cacheErr # "nil"
        /\ nList = 0

\* add-to-list went on without a cache after GetFollowedCache(true)
C10_Witness ==
    /\ noCache
    /\ cmd = "add-to-list"
    /\ pc = "keys"
    /\ cacheErr = "not fetched"

\* the follow calls logged so far that returned a project new to lgtm.com
NewFollows == {i \in 1..Len(followLog) : followLog[i].res = "new"}

\* C16: in the follow loop a cooldown follows each follow call that returned a
\* new project, before the next call can be issued, and no cooldown follows a
\* call that failed or returned a known project: while the loop sleeps the
\* last call returned a new project and is the only one not yet followed by
\* its cooldown; whenever the loop can issue a call or has ended, there have
\* been exactly as many cooldowns as calls that returned a new project.
C16_CooldownAfterNew ==
    cmd = "follow" =>
        /\ pc = "sleep" =>
            /\ followLog # <<>>
            /\ followLog[Len(followLog)].res = "new"
            /\ nSleep = Cardinality(NewFollows) - 1
        /\ pc \in {"followloop", "exited"} => nSleep = Cardinality(NewFollows)

\* a new repository, a cooldown, then a known one and no second cooldown
C16_Witness ==
    /\ cmd = "follow"
    /\ pc = "exited"
    /\ Len(followLog) = 2
    /\ followLog[1].res = "new"
    /\ followLog[2].res = "known"
    /\ nSleep = 1

\* C18: in add-to-list a failed AddProjectToSelection call does not abort the
\* run: once the chunks are being sent the command does not panic, and it
\* ends only when every chunk of every list has been sent.
C18_AddFailureRecovered ==
    (cmd = "add-to-list" /\ addLog # <<>>) =>
        /\ pc # "panicked"
        /\ pc \in Terminated => queue = <<>>

\* the raw arguments of unfollow that name a whole owner
BareOwners ==
    {raw \in {args[i] : i \in 1..Len(args)} : ~isGlob(raw) /\ IsUserOnly(raw).isWholeUser}

\* the canonical URL of the owner a raw argument names
OwnerURL(raw) == URL(ParseGitURL(raw, FALSE))

\* url is <canonical owner URL>/<repo>
OwnedBy(url, raw) ==
    /\ Len(url) > Len(OwnerURL(raw)) + 1
    /\ SubSeq(url, 1, Len(OwnerURL(raw)) + 1) = OwnerURL(raw) \o Slash
    /\ Count(SubSeq(url, Len(OwnerURL(raw)) + 2, Len(url)), "/") = 0

\* the followed entries of the snapshot: key and URL (clone URL without .git)
FollowedEntries ==
    {[key |-> cache.projects[i].Key, url |-> cache.projects[i].URL] :
        i \in 1..Len(cache.projects)}
    \cup {[key |-> cache.proto[i].Key, url |-> trimDotGit(cache.proto[i].CloneURL)] :
        i \in 1..Len(cache.proto)}

\* the compiled patterns that do not come from a bare owner
OtherPatterns ==
    {patterns[i] : i \in 1..Len(patterns)} \ {OwnerURL(raw) \o <<"/","*">> : raw \in BareOwners}

IsHostStar(pat) ==
    /\ HasSuffix(pat, <<"/","*">>)
    /\ Index(pat, SchemeSep) > 0
    /\ Count(pat, "/") = 3

\* C21: a compiled unfollow pattern that ends in /*/* or is literally
\* <host>/*, whatever the host, triggers the confirmation: the command gets
\* past the guard only after the user was asked.
C21_MatchAllDetected ==
    (cmd = "unfollow"
        /\ \E i \in 1..Len(patterns) :
              HasSuffix(patterns[i], <<"/","*","/","*">>) \/ IsHostStar(patterns[i]))
        => (pc \in {"confirm", "aborted"} \/ asked = 1)

\* C26: when unfollow has warned that all followed projects will be
\* unfollowed, the user has confirmed and the command has returned, every
\* project and proto-project of the snapshot has had its unfollow call.
C26_MatchAllMatchesAll ==
    (cmd = "unfollow" /\ asked = 1 /\ cache.has /\ pc = "exited") =>
        /\ \A i \in 1..Len(cache.projects) : unfollowCalls[cache.projects[i].Key] = 1
        /\ \A i \in 1..Len(cache.proto) : unfollowCalls[cache.proto[i].Key] = 1

\* unfollow runs without a cache and is past GetFollowedCache
Degraded ==
    /\ cmd = "unfollow"
    /\ ~cache.has
    /\ cacheErr # "nil"
    /\ ignoreFollowedErrors

\* the complete (non-glob) patterns among the first n compiled patterns
CompleteBefore(n) == {i \in 1..Len(patterns) : i < n /\ ~isGlob(patterns[i])}

\* C22: unfollow without a cache: a glob or a bare owner (compiled into a
\* glob) costs no lookup and is never what the command aborts on; the lookups
\* issued are exactly those of the complete patterns handled so far; when the
\* command has returned, every complete pattern whose lookup found a built
\* project has had that project unfollowed, whatever the other patterns were
\* and whatever lookups answered 'not found'.
C22_DegradedSkips ==
    Degraded =>
        /\ \A raw \in BareOwners :
            \A i \in 1..Len(patterns) : patterns[i] = OwnerURL(raw) \o <<"/","*">> =>
                isGlob(patterns[i])
        /\ pc \in {"degraded", "dispatch", "waited", "exited"} =>
            nLookup = Cardinality(CompleteBefore(idx))
        /\ pc = "panicked" =>
            (idx \in 1..Len(patterns) /\ ~isGlob(patterns[idx])
                /\ nLookup <= Cardinality(CompleteBefore(idx)) + 1)
        /\ pc = "exited" =>
            \A i \in 1..Len(patterns) :
                ~isGlob(patterns[i]) =>
                    \A b \in BuiltBySlug(ParseGitURL(patterns[i], TRUE)) :
                        unfollowCalls[BuiltProjects[b].Key] = 1

\* a bare owner, a glob, a repository that is not built and a built one:
\* two lookups, the built one unfollowed
C22_Witness ==
    /\ Degraded
    /\ args = <<rawA, rawCStar, rawAE, rawAB>>
    /\ pc = "exited"
    /\ nLookup = 2
    /\ unfollowCalls[1] = 1
    /\ Len(projectKeys) = 1

\* the goroutines of the pool that have run to their end
FinishedWorkers == {i \in DOMAIN workers : workers[i].pc = "finished"}

C28_DoneBeforeWaitReturns ==
    pc = "waited" => etaDone = Len(workers)

\* the goroutines that still hold the permit acquired for them
PermitHolders == {i \in DOMAIN workers : workers[i].permit}

\* C25: every dispatched work item holds one permit from its dispatch until
\* its deferred release, calls Take() exactly once and only then issues its
\* one remote call; no remote call is issued without a held permit and a
\* preceding Take(), and a finished item has given its permit back.
C25_PermitTakeCallRelease ==
    /\ semCur = Cardinality(PermitHolders)
    /\ \A i \in DOMAIN workers :
        LET w == workers[i]
        IN /\ w.pc = "spawned" => (w.permit /\ w.takes = 0 /\ unfollowCalls[w.key] = 0)
           /\ w.pc = "taken" => (w.permit /\ w.takes = 1 /\ unfollowCalls[w.key] = 0)
           /\ w.pc = "inflight" => (w.permit /\ w.takes = 1 /\ unfollowCalls[w.key] = 1)
           /\ w.pc \in {"returned", "finished"} => (w.takes = 1 /\ unfollowCalls[w.key] = 1)
           /\ w.pc = "finished" => ~w.permit

\* two calls in flight under two permits while a finished item has released
C25_Witness ==
    /\ Cardinality(InFlight) = 2
    /\ semCur = 2
    /\ \E i \in DOMAIN workers : workers[i].pc = "finished" /\ ~workers[i].permit

\* the follow calls that returned without error
FollowSucceeded == {i \in 1..Len(followLog) : followLog[i].res # "err"}

\* C24: the final summary of follow reports the total and, besides it, the
\* number of follow calls that succeeded and the number of newly created
\* projects, with new <= succeeded <= total.
C24_SummaryCounts ==
    (cmd = "follow" /\ pc = "exited") =>
        /\ FollowSummary[1] = Len(followLog)
        /\ \E k \in DOMAIN FollowSummary \ {1} : FollowSummary[k] = Cardinality(FollowSucceeded)
        /\ \E k \in DOMAIN FollowSummary \ {1} : FollowSummary[k] = Cardinality(NewFollows)
        /\ Cardinality(NewFollows) <= Cardinality(FollowSucceeded)
        /\ Cardinality(FollowSucceeded) <= Len(followLog)

(***************************************************************************)
(* Properties of the cache.                                                *)
(***************************************************************************)
\* C8: a Refresh that has returned issued exactly one ListFollowedProjects
\* call; if the call failed, Refresh returned an error and the stored projects
\* and proto-projects are what they were when Refresh was called.
C8_RefreshOneCall ==
    refresher.pc = "returned" =>
        /\ refresher.calls = 1
        /\ refresher.failed =>
            /\ refresher.ret = "err"
            /\ <<cache.projects, cache.proto>> = refresher.before

\* a Refresh failed on a cache that holds a snapshot
C8_Witness ==
    /\ refresher.pc = "returned"
    /\ refresher.failed
    /\ cache.projects # <<>>

\* the snapshots the cache can hold: the empty one of a new cache and the
\* answers of ListFollowedProjects
StoredSnapshots ==
    {<<(<<>>), (<<>>)>>} \cup {<<out.projects, out.proto>> : out \in {o \in RefreshOutcomes : ~o.err}}

\* C9: a lookup that read both the projects and the proto-projects (IsFollowed)
\* read the two of one snapshot, also when a Refresh ran at the same time.
C9_WholeSnapshot ==
    (reader.pc = "read all" /\ reader.op = "IsFollowed") =>
        <<reader.sawProjects, reader.sawProto>> \in StoredSnapshots

\* IsFollowed has read a non-empty snapshot while a Refresh waits for the lock
C9_Witness ==
    /\ reader.pc = "read all"
    /\ reader.op = "IsFollowed"
    /\ reader.sawProjects # <<>>
    /\ refresher.pc = "fetched"
    /\ refresher.fetched # <<cache.projects, cache.proto>>

====
